---- MODULE Spec2Model ----
(***************************************************************************)
(* Model of the assistant bridge of src/index.js (lines 1-283): the        *)
(* /prompt-stream handler, run admission over the activeRuns flag, the     *)
(* stream event processor handleStream and the tool dispatcher             *)
(* handleFunctionCall / handleFunctionError / handleToolOutputs.           *)
(*                                                                         *)
(* Node runs one callback at a time and drains the microtask queue after   *)
(* each callback, so every action below is the code that runs between two  *)
(* suspension points (await of a remote call, of sleep, of the next chunk  *)
(* of a stream, or a timer).  The remote service is nondeterministic: each *)
(* remote call returns or throws, each stream yields any chunk, ends or    *)
(* throws.                                                                 *)
(***************************************************************************)
EXTENDS Integers, Sequences, FiniteSets, TLC

\* ------------------------------------------------------------------ bounds
NumReqs == 2        \* requests that arrive during one behaviour
MAX_RETRIES == 2    \* process.env.MAX_RETRIES (configurable, default 10)
MaxEvents == 3      \* chunks the streams of one request yield in all
MaxInv == 2         \* handleStream invocations per request (outer + continuations)
MaxCalls == 2       \* tool calls carried by one requires_action chunk

Reqs == 1..NumReqs
Uuids == {"u1"}
Threads == 1..NumReqs   \* handles the remote service can issue (one per create call)
NoThread == 0           \* threadIds[uuid] === undefined

VARIABLES
    threadIds,    \* const threadIds = {}   : uuid -> thread id (NoThread if unset)
    activeRuns,   \* const activeRuns = {}  : thread id -> flag (undefined is falsy)
    owner,        \* remote service: thread id -> uuid of the request that created it
    env,          \* process.env.OPENAI_WAITING_MESSAGE is set
    req,          \* per request: position in handlePromptStream and its locals
    res,          \* per request: the express response object
    inv,          \* per request: the handleStream invocations it started
    clears,       \* per request: executions of `activeRuns[...] = false` on its behalf
    lastCall,     \* the tool call the latest step dispatched, with everything it
                  \* caused (NoCall after any other step)
    step          \* what the latest step was: the chunk a stream yielded, its
                  \* end, its failure, a timer (NoStep after a step of a request)

vars == <<threadIds, activeRuns, owner, env, req, res, inv, clears, lastCall, step>>

\* ------------------------------------------------------------- JSON values
\* A JSON value is a string, a number (its digits) or a flat object, kept as
\* the ordered list of its own properties.
JStr(s) == [t |-> "str", v |-> s, props |-> <<>>]
JNum(d) == [t |-> "num", v |-> d, props |-> <<>>]
JObj(ps) == [t |-> "obj", v |-> "", props |-> ps]

\* JSON.stringify of a string or number: the text as a sequence of lexemes.
StringifyAtom(x) ==
    IF x.t = "str" THEN <<"\"", x.v, "\"">> ELSE <<x.v>>

RECURSIVE StringifyProps(_)
StringifyProps(ps) ==
    IF ps = <<>> THEN <<>>
    ELSE <<"\"", ps[1][1], "\"", ":">> \o StringifyAtom(ps[1][2])
         \o (IF Len(ps) > 1 THEN <<",">> ELSE <<>>)
         \o StringifyProps(Tail(ps))

JSONstringify(x) ==
    IF x.t = "obj" THEN <<"{">> \o StringifyProps(x.props) \o <<"}">>
    ELSE StringifyAtom(x)

\* ------------------------------------------------------------ the response
Frame(type, content) == [type |-> type, content |-> content]

NewRes == [code |-> 200, ended |-> FALSE, json |-> "none", frames |-> <<>>]

HeadersSent(r) == r.frames # <<>> \/ r.ended

\* res.status(c).json({message: m}): status, body and end of the response.
StatusJson(r, c, m) ==
    IF HeadersSent(r) THEN r
    ELSE [r EXCEPT !.code = c, !.json = m, !.ended = TRUE]

\* res.status(c).end(): the status only reaches the client if no frame was
\* written before; the channel is closed either way.
StatusEnd(r, c) ==
    [r EXCEPT !.code = IF HeadersSent(r) THEN @ ELSE c, !.ended = TRUE]

\* res.end()
End(r) == [r EXCEPT !.ended = TRUE]

\* sendStreamResponse, lines 222-230: nothing is written once the response
\* has ended.  The data of every call is a plain object of strings, for which
\* JSON.stringify and res.write do not throw, so the catch of lines 226-228 has
\* nothing to receive; whatever it received would stay inside the function.
sendStreamResponseUnguarded(r, data) == [r EXCEPT !.frames = Append(@, data)]

sendStreamResponse(r, data) ==
    IF ~r.ended THEN [r EXCEPT !.frames = Append(@, data)] ELSE r

\* ------------------------------------------------------------ the requests
NoCall == [by |-> 0, k |-> 0, tc |-> <<>>, invoked |-> {}, subs |-> <<>>,
           spawned |-> FALSE, end500 |-> FALSE]

Chunk(event, kind, k, text) == [event |-> event, kind |-> kind, k |-> k, text |-> text]

Step(kind, r, i, c) == [kind |-> kind, by |-> r, i |-> i, c |-> c]
NoStep == Step("none", 0, 0, Chunk("", "", 0, ""))

NewReq == [pc |-> "idle", uuid |-> "none", tid |-> NoThread, retries |-> 0,
           sleeps |-> 0, failedAt |-> "none", appended |-> FALSE, run |-> FALSE,
           runOn |-> NoThread, chunks |-> 0]

Init ==
    /\ threadIds = [u \in Uuids |-> NoThread]
    /\ activeRuns = [t \in Threads |-> FALSE]
    /\ owner = [t \in Threads |-> "none"]
    /\ env = FALSE
    /\ req = [r \in Reqs |-> NewReq]
    /\ res = [r \in Reqs |-> NewRes]
    /\ inv = [r \in Reqs |-> <<>>]
    /\ clears = [r \in Reqs |-> 0]
    /\ lastCall = NoCall
    /\ step = NoStep

\* `if (threadIds[uuid]) activeRuns[threadIds[uuid]] = false` (lines 202-204
\* and 271-273): the flag of the thread the uuid maps to NOW.
ClearFlag(flags, ids, u) ==
    IF ids[u] # NoThread THEN [flags EXCEPT ![ids[u]] = FALSE] ELSE flags

Cleared(ids, u) == IF ids[u] # NoThread THEN 1 ELSE 0

\* One pass of waitForActiveRun's loop head for request r (whose record is
\* rq), called with threadId = t and now at retries = k, up to its next
\* suspension; ids is threadIds as it is now.  A `return true` resumes
\* handlePromptStream at line 251 in the same macrotask: the flag is set
\* (line 256, on the thread the uuid maps to now) and messages.create is
\* issued before any other callback runs.
waitForActiveRunSetLater(r, rq, t, k, ids) ==
    IF k < MAX_RETRIES /\ ~activeRuns[t]
    THEN /\ req' = [req EXCEPT ![r] = [rq EXCEPT !.pc = "append", !.tid = t, !.retries = k]]
         /\ UNCHANGED <<activeRuns, res>>
    ELSE IF k < MAX_RETRIES
    THEN /\ req' = [req EXCEPT ![r] = [rq EXCEPT !.pc = "sleep", !.tid = t, !.retries = k]]
         /\ UNCHANGED <<activeRuns, res>>
    ELSE /\ req' = [req EXCEPT ![r] = [rq EXCEPT !.pc = "done", !.tid = t, !.retries = k,
                                                 !.failedAt = "admission"]]
         /\ res' = [res EXCEPT ![r] = StatusJson(@, 400, "A run is already active. Please try again later.")]
         /\ UNCHANGED activeRuns

waitForActiveRun(r, rq, t, k, ids) ==
    IF k < MAX_RETRIES /\ ~activeRuns[t]
    THEN /\ activeRuns' = [activeRuns EXCEPT ![ids[rq.uuid]] = TRUE]
         /\ req' = [req EXCEPT ![r] = [rq EXCEPT !.pc = "append", !.tid = t, !.retries = k]]
         /\ res' = res
    ELSE IF k < MAX_RETRIES
    THEN /\ req' = [req EXCEPT ![r] = [rq EXCEPT !.pc = "sleep", !.tid = t, !.retries = k]]
         /\ UNCHANGED <<activeRuns, res>>
    ELSE /\ req' = [req EXCEPT ![r] = [rq EXCEPT !.pc = "done", !.tid = t, !.retries = k,
                                                 !.failedAt = "admission"]]
         /\ res' = [res EXCEPT ![r] = StatusJson(@, 400, "A run is already active. Please try again later.")]
         /\ UNCHANGED activeRuns

\* POST /prompt-stream with body {uuid: u, message}: lines 232-250, up to the
\* first suspension.  u = "none" is a body without uuid.
handlePromptStream(r, u, hasMessage) ==
    /\ req[r].pc = "idle"
    /\ IF u = "none" \/ ~hasMessage
       THEN /\ req' = [req EXCEPT ![r].pc = "done", ![r].failedAt = "required"]
            /\ res' = [res EXCEPT ![r] = StatusJson(@, 400,
                          IF u = "none" THEN "Uuid is required" ELSE "Message is required")]
            /\ UNCHANGED activeRuns
       ELSE IF threadIds[u] = NoThread
       THEN /\ req' = [req EXCEPT ![r].pc = "create", ![r].uuid = u]
            /\ UNCHANGED <<activeRuns, res>>
       ELSE waitForActiveRun(r, [req[r] EXCEPT !.uuid = u], threadIds[u], 0, threadIds)
    /\ UNCHANGED <<threadIds, owner, env, inv, clears>>
    /\ lastCall' = NoCall /\ step' = NoStep

\* The catch of handlePromptStream, lines 269-275.
catchPromptStream(r, where) ==
    /\ activeRuns' = ClearFlag(activeRuns, threadIds, req[r].uuid)
    /\ clears' = [clears EXCEPT ![r] = @ + Cleared(threadIds, req[r].uuid)]
    /\ res' = [res EXCEPT ![r] = StatusJson(@, 500, "Error communicating with OpenAI")]
    /\ req' = [req EXCEPT ![r].pc = "done", ![r].failedAt = where]
    /\ UNCHANGED <<threadIds, owner, env, inv>>
    /\ lastCall' = NoCall /\ step' = NoStep

\* openai.beta.threads.create() settles, lines 245-250: the remote service
\* issues a thread it never issued before.
threadsCreate(r, ok) ==
    /\ req[r].pc = "create"
    /\ IF ok
       THEN \E t \in Threads :
              /\ owner[t] = "none"
              /\ \A t2 \in Threads : t2 < t => owner[t2] # "none"
              /\ owner' = [owner EXCEPT ![t] = req[r].uuid]
              /\ threadIds' = [threadIds EXCEPT ![req[r].uuid] = t]
              /\ waitForActiveRun(r, req[r], t, 0, threadIds')
              /\ UNCHANGED <<env, inv, clears>>
              /\ lastCall' = NoCall /\ step' = NoStep
       ELSE catchPromptStream(r, "create")

\* `await sleep(delay)` returns, lines 37 and 31-35.
sleepReturns(r) ==
    /\ req[r].pc = "sleep"
    /\ waitForActiveRun(r, [req[r] EXCEPT !.sleeps = @ + 1], req[r].tid,
                        req[r].retries + 1, threadIds)
    /\ UNCHANGED <<threadIds, owner, env, inv, clears>>
    /\ lastCall' = NoCall /\ step' = NoStep

\* openai.beta.threads.messages.create settles, lines 258-263.
messagesCreate(r, ok) ==
    /\ req[r].pc = "append"
    /\ IF ok
       THEN /\ req' = [req EXCEPT ![r].pc = "runcreate", ![r].appended = TRUE]
            /\ UNCHANGED <<threadIds, activeRuns, owner, env, res, inv, clears>>
            /\ lastCall' = NoCall /\ step' = NoStep
       ELSE catchPromptStream(r, "append")

\* A handleStream invocation up to its first `for await`: its locals.
NewInv == [st |-> "loop", isWriting |-> FALSE, timer |-> "unset",
           orphans |-> 0, k |-> 0, calls |-> 0]

\* openai.beta.threads.runs.create settles, lines 263-268; handleStream is
\* called and not awaited.
runsCreate(r, ok) ==
    /\ req[r].pc = "runcreate"
    /\ IF ok
       THEN /\ req' = [req EXCEPT ![r].pc = "streaming", ![r].run = TRUE,
                                   ![r].runOn = threadIds[req[r].uuid]]
            /\ inv' = [inv EXCEPT ![r] = <<NewInv>>]
            /\ UNCHANGED <<threadIds, activeRuns, owner, env, res, clears>>
            /\ lastCall' = NoCall /\ step' = NoStep
       ELSE catchPromptStream(r, "run")

\* ------------------------------------------------------- the tool dispatcher
\* What `await import(...)` followed by the call of the module's default
\* export can do: the module is absent (import rejects), the handler returns
\* {data: D}, returns nothing (a falsy result), or throws Error(msg).
Handler(kind, data, msg) == [kind |-> kind, data |-> data, msg |-> msg]
NoData == JObj(<<>>)

DataAvr == JObj(<< <<"status", JStr("success")>>, <<"value", JNum("42")>> >>)
DataExt == JObj(<< <<"status", JStr("success")>>, <<"message", JStr("done")>> >>)

AvrHandlers == { Handler("absent", NoData, ""), Handler("returns", DataAvr, ""),
                 Handler("nothing", NoData, ""), Handler("throws", NoData, "avr failed") }
ExtHandlers == { Handler("absent", NoData, ""), Handler("returns", DataExt, ""),
                 Handler("nothing", NoData, ""), Handler("throws", NoData, "ext failed") }

FailureResult(msg) ==
    JObj(<< <<"status", JStr("failure")>>, <<"message", JStr(msg)>> >>)

\* One call of openai.beta.threads.runs.submitToolOutputs: its tool_outputs
\* array holds one element (lines 79-84, 97-102), n is its length; `accepted`
\* is whether the remote service returned a stream.
Submission(id, output, accepted, line) ==
    [tool_call_id |-> id, output |-> output, n |-> 1, accepted |-> accepted,
     line |-> line]

Outcome(invoked, subs, spawned, end500, threw) ==
    [invoked |-> invoked, subs |-> subs, spawned |-> spawned, end500 |-> end500,
     threw |-> threw]

\* handleFunctionError, lines 91-111.  `uuid` is no parameter and no variable
\* of the module: when the submission returns, evaluating the arguments of
\* handleStream(uuid, run, res) throws a ReferenceError inside the try, so
\* the returned stream is dropped and the catch ends the response, exactly
\* as when the submission itself rejects.
handleFunctionError(tc, errorMessage, invoked, before) ==
    Outcome(invoked,
            Append(before, Submission(tc.id, JSONstringify(FailureResult(errorMessage)),
                                      tc.s2 = "ok", 93)),
            FALSE, TRUE, "")

\* Lines 57-73: the result and the handlers invoked for parsed arguments.
\* The external handler is tried whenever the internal one left no result.
AvrInvoked(tc) == tc.avr.kind # "absent"
AvrResult(tc) == tc.avr.kind = "returns"
ExtTried(tc) == ~AvrResult(tc)
ExtInvoked(tc) == ExtTried(tc) /\ tc.ext.kind # "absent"
InvokedSet(tc) ==
    (IF AvrInvoked(tc) THEN {"avr"} ELSE {}) \cup (IF ExtInvoked(tc) THEN {"ext"} ELSE {})

\* ResultData with the external handler's result taking precedence over the
\* internal one's.
ResultDataExternalFirst(tc) ==
    IF tc.ext.kind = "returns" THEN tc.ext.data
    ELSE IF tc.avr.kind = "returns" THEN tc.avr.data
    ELSE FailureResult("Function execution failed")

\* `result` at line 75, when that line is reached: never falsy unless the
\* external handler returned nothing.
ResultData(tc) ==
    IF AvrResult(tc) THEN tc.avr.data
    ELSE IF tc.ext.kind = "returns" THEN tc.ext.data
    ELSE FailureResult("Function execution failed")

\* handleFunctionCall, lines 43-89.  threw # "" is the message of the error
\* that leaves the function.
handleFunctionCall(tc) ==
    IF tc.args = "badjson"
    THEN handleFunctionError(tc, "Invalid function arguments", {}, <<>>)
    ELSE IF tc.args = "null"
    THEN \* JSON.parse gave null: `function_args.uuid = uuid` throws TypeError
         Outcome({}, <<>>, FALSE, FALSE, "Cannot set properties of null (setting 'uuid')")
    ELSE IF ExtTried(tc) /\ tc.ext.kind \in {"absent", "throws"}
    THEN handleFunctionError(tc, "Function execution failed", InvokedSet(tc), <<>>)
    ELSE IF tc.s1 = "ok"
    THEN Outcome(InvokedSet(tc),
                 <<Submission(tc.id, JSONstringify(ResultData(tc)), TRUE, 75)>>,
                 TRUE, FALSE, "")
    ELSE Outcome(InvokedSet(tc),
                 <<Submission(tc.id, JSONstringify(ResultData(tc)), FALSE, 75)>>,
                 FALSE, FALSE, "submitToolOutputs rejected")

\* The body of handleToolOutputs' loop for one tool call, lines 211-218.
handleToolOutputs(tc) ==
    IF tc.type # "function" THEN Outcome({}, <<>>, FALSE, FALSE, "")
    ELSE LET o == handleFunctionCall(tc) IN
         IF o.threw # "" THEN handleFunctionError(tc, o.threw, o.invoked, o.subs)
         ELSE o

\* ------------------------------------------------ the stream event processor
\* clearTimeout(waitingMessageTimeout): only the timer the local refers to.
clearTimeout(timer) == IF timer = "armed" THEN "cleared" ELSE timer

WaitingFrame == Frame("status", "OPENAI_WAITING_MESSAGE")

\* The switch of handleStream for one chunk, lines 122-191, as the new locals
\* of the invocation v and the new response of its request; an error thrown
\* inside the switch is caught at line 185.
SwitchInv(v, c) ==
    CASE c.event = "thread.run.created" ->
           IF env
           THEN [v EXCEPT !.timer = "armed",
                          !.orphans = IF v.timer = "armed" THEN @ + 1 ELSE @]
           ELSE v
      [] c.event = "thread.message.delta" ->
           [v EXCEPT !.isWriting = TRUE, !.timer = clearTimeout(@)]
      [] c.event = "thread.run.requires_action" ->
           IF c.kind = "submit_tool_outputs"
           THEN [v EXCEPT !.timer = clearTimeout(@), !.st = "tools", !.k = c.k, !.calls = c.k]
           ELSE [v EXCEPT !.timer = clearTimeout(@)]
      [] c.event \in {"thread.run.completed", "thread.run.failed"} ->
           [v EXCEPT !.timer = clearTimeout(@)]
      [] OTHER -> v

\* The catch around the switch, lines 185-191.
CatchEventEnds(rs) ==
    End(sendStreamResponse(rs, Frame("error", "Error processing response")))

CatchEvent(rs) == sendStreamResponse(rs, Frame("error", "Error processing response"))

\* case 'thread.message.delta', lines 137-147: content is
\* chunk.data.delta.content[0]; a chunk without data.delta.content throws a
\* TypeError at line 140, which the catch of line 185 receives.
DeltaResAnyType(rs, c) ==
    IF c.kind = "malformed" THEN CatchEvent(rs)
    ELSE sendStreamResponse(rs, Frame("text", c.text))

DeltaRes(rs, c) ==
    IF c.kind = "malformed" THEN CatchEvent(rs)
    ELSE IF c.kind = "text" THEN sendStreamResponse(rs, Frame("text", c.text))
    ELSE rs

SwitchRes(rs, c) ==
    CASE c.event = "thread.message.delta" -> DeltaRes(rs, c)
      [] c.event = "thread.run.requires_action" ->
           IF c.kind = "submit_tool_outputs" THEN rs
           ELSE sendStreamResponse(rs, Frame("error", "Unsupported action type"))
      [] c.event = "thread.run.completed" ->
           End(sendStreamResponse(rs, Frame("status", "completed")))
      [] c.event = "thread.run.failed" ->
           End(sendStreamResponse(rs, Frame("error", "Assistant run failed")))
      [] OTHER -> rs

\* The stream of invocation i of request r yields chunk c: one pass of the
\* `for await` body, lines 118-192.  A requires_action chunk leaves the
\* invocation inside `await handleToolOutputs`, with c.k tool calls to go.
handleStreamChunk(r, i, c) ==
    /\ req[r].pc = "streaming"
    /\ i \in 1..Len(inv[r])
    /\ inv[r][i].st = "loop"
    /\ req[r].chunks < MaxEvents
    /\ (c.event = "thread.run.requires_action" /\ c.kind = "submit_tool_outputs")
          => Len(inv[r]) < MaxInv
    /\ inv' = [inv EXCEPT ![r][i] = SwitchInv(@, c)]
    /\ res' = [res EXCEPT ![r] = SwitchRes(@, c)]
    /\ req' = [req EXCEPT ![r].chunks = @ + 1]
    /\ UNCHANGED <<threadIds, activeRuns, owner, env, clears>>
    /\ lastCall' = NoCall /\ step' = Step("chunk", r, i, c)

\* handleToolOutputs dispatches the next tool call of the pending
\* requires_action chunk (lines 210-219, with handleFunctionCall and
\* handleFunctionError): the handlers and the remote submission settle, a
\* continuation stream handed to handleStream starts a new invocation, and
\* after the last call the `for await` of invocation i goes on.
handleToolCall(r, i, tc) ==
    /\ req[r].pc = "streaming"
    /\ i \in 1..Len(inv[r])
    /\ inv[r][i].st = "tools"
    /\ handleToolOutputs(tc).spawned => Len(inv[r]) < MaxInv
    /\ LET o == handleToolOutputs(tc)
           left == inv[r][i].calls - 1
           mine == [inv[r] EXCEPT ![i].calls = left,
                                  ![i].st = IF left = 0 THEN "loop" ELSE "tools"]
       IN /\ inv' = [inv EXCEPT ![r] = IF o.spawned THEN Append(mine, NewInv) ELSE mine]
          /\ res' = [res EXCEPT ![r] = IF o.end500 THEN StatusEnd(@, 500) ELSE @]
          /\ lastCall' = [by |-> r, k |-> inv[r][i].k, tc |-> tc, invoked |-> o.invoked,
                          subs |-> o.subs, spawned |-> o.spawned, end500 |-> o.end500]
    /\ step' = Step("tool", r, i, NoStep.c)
    /\ UNCHANGED <<threadIds, activeRuns, owner, env, req, clears>>

\* The finally of handleStream, lines 200-205.
finallyStream(r, i) ==
    /\ inv' = [inv EXCEPT ![r][i].st = "done", ![r][i].timer = clearTimeout(@)]
    /\ activeRuns' = ClearFlag(activeRuns, threadIds, req[r].uuid)
    /\ clears' = [clears EXCEPT ![r] = @ + Cleared(threadIds, req[r].uuid)]

\* The stream of invocation i ends: the `for await` is left normally.
streamEnds(r, i) ==
    /\ req[r].pc = "streaming"
    /\ i \in 1..Len(inv[r])
    /\ inv[r][i].st = "loop"
    /\ finallyStream(r, i)
    /\ UNCHANGED <<threadIds, owner, env, req, res>>
    /\ lastCall' = NoCall /\ step' = Step("end", r, i, NoStep.c)

\* The catch around the `for await`, lines 193-199.
CatchStreamNoEnd(rs) == sendStreamResponse(rs, Frame("error", "Stream connection error"))

CatchStream(rs) == End(sendStreamResponse(rs, Frame("error", "Stream connection error")))

\* Iterating the stream of invocation i throws.
streamThrows(r, i) ==
    /\ req[r].pc = "streaming"
    /\ i \in 1..Len(inv[r])
    /\ inv[r][i].st = "loop"
    /\ res' = [res EXCEPT ![r] = CatchStream(@)]
    /\ finallyStream(r, i)
    /\ UNCHANGED <<threadIds, owner, env, req>>
    /\ lastCall' = NoCall /\ step' = Step("throw", r, i, NoStep.c)

\* The setTimeout callback of lines 126-133.
TimerCallback(r, i) ==
    res' = [res EXCEPT ![r] =
               IF ~inv[r][i].isWriting THEN sendStreamResponse(@, WaitingFrame) ELSE @]

\* The timer waitingMessageTimeout refers to expires.
timerFires(r, i) ==
    /\ i \in 1..Len(inv[r])
    /\ inv[r][i].timer = "armed"
    /\ inv' = [inv EXCEPT ![r][i].timer = "fired"]
    /\ TimerCallback(r, i)
    /\ UNCHANGED <<threadIds, activeRuns, owner, env, req, clears>>
    /\ lastCall' = NoCall /\ step' = Step("timer", r, i, NoStep.c)

\* A timer armed by an earlier thread.run.created chunk, whose handle a later
\* one overwrote, expires: no clearTimeout can reach it.
orphanFires(r, i) ==
    /\ i \in 1..Len(inv[r])
    /\ inv[r][i].orphans > 0
    /\ inv' = [inv EXCEPT ![r][i].orphans = @ - 1]
    /\ TimerCallback(r, i)
    /\ UNCHANGED <<threadIds, activeRuns, owner, env, req, clears>>
    /\ lastCall' = NoCall /\ step' = Step("orphan", r, i, NoStep.c)

\* ------------------------------------------------------------------ inputs
CallIds == {"call_1", "call_2"}

ToolCall(type, id, args, avr, ext, s1, s2) ==
    [type |-> type, id |-> id, args |-> args, avr |-> avr, ext |-> ext,
     s1 |-> s1, s2 |-> s2]

\* Line 75 is reached: the arguments parse to an object and a handler left
\* a result, or the external handler returned.
ReachesSubmit(a, h, x) ==
    a = "object" /\ (h.kind = "returns" \/ x.kind \in {"returns", "nothing"})

\* Every tool call the remote service may send, with what its handlers and
\* the submissions it causes will do (s1: the submission of line 75, s2: the
\* one of line 93; an answer is only chosen for a submission that can be made).
ToolCallsAll ==
    { tc \in { ToolCall("function", id, a, h, x, s1, s2) :
                 id \in CallIds, a \in {"badjson", "object", "null"},
                 h \in AvrHandlers, x \in ExtHandlers,
                 s1 \in {"ok", "reject"}, s2 \in {"ok", "reject"} } :
        /\ tc.args # "object" => tc.avr.kind = "returns" /\ tc.ext.kind = "returns"
        /\ ~ReachesSubmit(tc.args, tc.avr, tc.ext) => tc.s1 = "ok"
        /\ (ReachesSubmit(tc.args, tc.avr, tc.ext) /\ tc.s1 = "ok") => tc.s2 = "ok" }
    \cup { ToolCall("code_interpreter", "call_1", "object", Handler("absent", NoData, ""),
                    Handler("absent", NoData, ""), "ok", "ok") }

\* The tool calls of the admission specification: one that succeeds and one
\* whose arguments do not parse.
ToolCallsCore ==
    { ToolCall("function", "call_1", a, Handler("returns", DataAvr, ""),
               Handler("absent", NoData, ""), "ok", "ok") : a \in {"object", "badjson"} }

ChunksAll ==
    { Chunk("thread.run.created", "", 0, ""),
      Chunk("thread.run.completed", "", 0, ""),
      Chunk("thread.run.failed", "", 0, ""),
      Chunk("thread.run.step.created", "", 0, ""),
      Chunk("thread.run.requires_action", "other", 0, ""),
      Chunk("thread.run.requires_action", "submit_tool_outputs", 1, "") }
    \cup { Chunk("thread.message.delta", "text", 0, v) : v \in {"Hello", "World"} }
    \cup { Chunk("thread.message.delta", k, 0, "") : k \in {"image_file", "malformed"} }

ChunksCore ==
    { Chunk("thread.run.completed", "", 0, ""),
      Chunk("thread.message.delta", "text", 0, "Hello"),
      Chunk("thread.run.requires_action", "submit_tool_outputs", 1, "") }

ChunksBatch ==
    ChunksCore
    \cup { Chunk("thread.run.requires_action", "submit_tool_outputs", k, "") : k \in 1..MaxCalls }

\* ---------------------------------------------------------- specifications
\* Spec: NumReqs concurrent requests from arrival to the end of their turns,
\* with no waiting message configured.
Next ==
    \/ \E r \in Reqs, u \in Uuids \cup {"none"}, m \in BOOLEAN : handlePromptStream(r, u, m)
    \/ \E r \in Reqs, ok \in BOOLEAN : threadsCreate(r, ok)
    \/ \E r \in Reqs : sleepReturns(r)
    \/ \E r \in Reqs, ok \in BOOLEAN : messagesCreate(r, ok)
    \/ \E r \in Reqs, ok \in BOOLEAN : runsCreate(r, ok)
    \/ \E r \in Reqs, i \in 1..MaxInv, c \in ChunksCore : handleStreamChunk(r, i, c)
    \/ \E r \in Reqs, i \in 1..MaxInv, tc \in ToolCallsCore : handleToolCall(r, i, tc)
    \/ \E r \in Reqs, i \in 1..MaxInv : streamEnds(r, i)
    \/ \E r \in Reqs, i \in 1..MaxInv : streamThrows(r, i)

Spec == Init /\ [][Next]_vars

\* SpecAdmit: the admission of NumReqs concurrent requests, each turn being
\* one stream that completes, ends or fails.
ChunksTerminal == { Chunk("thread.run.completed", "", 0, "") }

NextAdmit ==
    \/ \E r \in Reqs, u \in Uuids \cup {"none"}, m \in BOOLEAN : handlePromptStream(r, u, m)
    \/ \E r \in Reqs, ok \in BOOLEAN : threadsCreate(r, ok)
    \/ \E r \in Reqs : sleepReturns(r)
    \/ \E r \in Reqs, ok \in BOOLEAN : messagesCreate(r, ok)
    \/ \E r \in Reqs, ok \in BOOLEAN : runsCreate(r, ok)
    \/ \E r \in Reqs, c \in ChunksTerminal : handleStreamChunk(r, 1, c)
    \/ \E r \in Reqs : streamEnds(r, 1)
    \/ \E r \in Reqs : streamThrows(r, 1)

SpecAdmit == Init /\ [][NextAdmit]_vars

\* The state in which handleStream is called at line 268 for request 1,
\* admitted on a fresh session.
Admitted ==
    /\ threadIds = [u \in Uuids |-> 1]
    /\ activeRuns = [t \in Threads |-> t = 1]
    /\ owner = [t \in Threads |-> IF t = 1 THEN "u1" ELSE "none"]
    /\ req = [r \in Reqs |-> IF r = 1
                THEN [NewReq EXCEPT !.pc = "streaming", !.uuid = "u1", !.tid = 1,
                                    !.appended = TRUE, !.run = TRUE, !.runOn = 1]
                ELSE NewReq]
    /\ res = [r \in Reqs |-> NewRes]
    /\ inv = [r \in Reqs |-> IF r = 1 THEN <<NewInv>> ELSE <<>>]
    /\ clears = [r \in Reqs |-> 0]
    /\ lastCall = NoCall
    /\ step = NoStep

\* SpecDispatch: the turn of one admitted request, with every tool call the
\* remote service may send and no waiting message configured.
InitDispatch == Admitted /\ env = FALSE

NextDispatch ==
    \/ \E i \in 1..MaxInv, c \in ChunksCore : handleStreamChunk(1, i, c)
    \/ \E i \in 1..MaxInv, tc \in ToolCallsAll : handleToolCall(1, i, tc)
    \/ \E i \in 1..MaxInv : streamEnds(1, i)
    \/ \E i \in 1..MaxInv : streamThrows(1, i)

SpecDispatch == InitDispatch /\ [][NextDispatch]_vars

\* SpecBatch: the turn of one admitted request whose requires_action chunks
\* carry up to MaxCalls tool calls, with no waiting message configured.
NextBatch ==
    \/ \E i \in 1..MaxInv, c \in ChunksBatch : handleStreamChunk(1, i, c)
    \/ \E i \in 1..MaxInv, tc \in ToolCallsCore : handleToolCall(1, i, tc)
    \/ \E i \in 1..MaxInv : streamEnds(1, i)
    \/ \E i \in 1..MaxInv : streamThrows(1, i)

SpecBatch == InitDispatch /\ [][NextBatch]_vars

\* SpecTurn: the turn of one admitted request, with every chunk the remote
\* service may send, with and without a waiting message configured.
InitTurn == Admitted /\ env \in BOOLEAN

NextTurn ==
    \/ \E i \in 1..MaxInv, c \in ChunksAll : handleStreamChunk(1, i, c)
    \/ \E i \in 1..MaxInv, tc \in ToolCallsCore : handleToolCall(1, i, tc)
    \/ \E i \in 1..MaxInv : streamEnds(1, i)
    \/ \E i \in 1..MaxInv : streamThrows(1, i)
    \/ \E i \in 1..MaxInv : timerFires(1, i)
    \/ \E i \in 1..MaxInv : orphanFires(1, i)

SpecTurn == InitTurn /\ [][NextTurn]_vars

\* ------------------------------------------------------------------ claims
\* Request r has been admitted (line 256) and its turn has not reached its
\* end: a remote call of lines 258-266 is pending or one of its handleStream
\* invocations is still consuming a stream.
InTurn(r) ==
    \/ req[r].pc \in {"append", "runcreate"}
    \/ req[r].pc = "streaming" /\ \E i \in 1..Len(inv[r]) : inv[r][i].st # "done"

Consuming(r) ==
    req[r].pc = "streaming" /\ \E i \in 1..Len(inv[r]) : inv[r][i].st # "done"

\* No request is in flight.
Quiescent == \A r \in Reqs : req[r].pc \in {"idle", "done", "streaming"} /\ ~Consuming(r)

\* C1: for requests of one session on one conversation handle, at most one
\* turn is active at a time; none is admitted while an earlier turn still
\* consumes a stream, continuation streams included.
C1_OneTurnPerSession ==
    \A r1, r2 \in Reqs :
        (r1 # r2 /\ req[r1].uuid = req[r2].uuid /\ req[r1].tid = req[r2].tid)
            => ~(InTurn(r1) /\ InTurn(r2))

\* C2: the remote create call is made at most once per session identifier.
C2_OneHandlePerSession ==
    \A u \in Uuids : Cardinality({t \in Threads : owner[t] = u}) <= 1

\* C3: within one turn the flag is cleared exactly once, and only when the
\* whole turn (its last continuation stream included) has reached its end.
C3_ClearedOnceAtEnd ==
    \A r \in Reqs : clears[r] <= 1 /\ (clears[r] = 1 => ~InTurn(r))

\* C4: no flag is left set: once every request has run to its end, no
\* thread's flag is true.
C4_NoFlagLeftSet ==
    Quiescent => \A t \in Threads : ~activeRuns[t]

\* C5: when admission gives up after MAX_RETRIES waits, the flag of the
\* thread it waited for is false afterwards.
C5_TimeoutClearsFlag ==
    [][\A r \in Reqs :
          (req[r].failedAt # "admission" /\ req'[r].failedAt = "admission")
              => ~activeRuns'[req'[r].tid]]_vars

\* C6: a rejected message-append after admission is answered with a 4xx
\* response and the flag of the session's thread is cleared.
C6_AppendConflictIs4xx ==
    \A r \in Reqs :
        req[r].failedAt = "append" => res[r].code \in 400..499

\* The tool call dispatched by the latest step, if it was a function call.
Dispatched == lastCall.by # 0 /\ lastCall.tc.type = "function"

\* The text JSON.stringify gives for the values of this model, written out.
TextOf(x) ==
    CASE x = DataAvr ->
           <<"{", "\"", "status", "\"", ":", "\"", "success", "\"", ",",
             "\"", "value", "\"", ":", "42", "}">>
      [] x = DataExt ->
           <<"{", "\"", "status", "\"", ":", "\"", "success", "\"", ",",
             "\"", "message", "\"", ":", "\"", "done", "\"", "}">>
      [] OTHER -> <<>>

FailureText(msg) ==
    <<"{", "\"", "status", "\"", ":", "\"", "failure", "\"", ",",
      "\"", "message", "\"", ":", "\"", msg, "\"", "}">>

\* The continuation stream the latest dispatch obtained is being consumed by
\* a new handleStream invocation of the same request.
ContinuationConsumed ==
    /\ lastCall.spawned
    /\ ~lastCall.end500
    /\ Len(inv[lastCall.by]) >= 2
    /\ inv[lastCall.by][Len(inv[lastCall.by])] = NewInv

\* C7: a tool call whose arguments are not valid JSON invokes no handler,
\* submits exactly one failure result 'Invalid function arguments', and the
\* continuation stream that submission returns is consumed.
C7_BadArgumentsTurnContinues ==
    (Dispatched /\ lastCall.tc.args = "badjson") =>
        /\ lastCall.invoked = {}
        /\ Len(lastCall.subs) = 1
        /\ lastCall.subs[1].tool_call_id = lastCall.tc.id
        /\ lastCall.subs[1].output = FailureText("Invalid function arguments")
        /\ lastCall.subs[1].accepted => ContinuationConsumed

\* The handler first-match-wins resolution selects: the internal one if its
\* module exists, else the external one.
Resolved(tc) == IF tc.avr.kind # "absent" THEN tc.avr ELSE tc.ext

\* C8: when the resolved handler returns {data: D}, exactly one submission
\* carries D: the first, {tool_call_id: id of the call, output: JSON text of
\* D}; when the remote service accepts it nothing else is submitted and the
\* stream it returns is consumed by a new handleStream invocation.
C8_HandlerDataSubmitted ==
    (Dispatched /\ lastCall.tc.args = "object" /\ Resolved(lastCall.tc).kind = "returns") =>
        LET d == Resolved(lastCall.tc).data
            subs == lastCall.subs
        IN /\ Len(subs) >= 1
           /\ subs[1].tool_call_id = lastCall.tc.id
           /\ subs[1].output = TextOf(d)
           /\ subs[1].line = 75
           /\ \A k \in 2..Len(subs) : subs[k].output # TextOf(d)
           /\ subs[1].accepted => (Len(subs) = 1 /\ ContinuationConsumed)

C8_Witness ==
    /\ Dispatched /\ lastCall.tc.args = "object"
    /\ lastCall.tc.avr.kind = "absent" /\ lastCall.tc.ext.kind = "returns"
    /\ lastCall.tc.id = "call_2"
    /\ lastCall.subs[1].accepted
    /\ ContinuationConsumed

\* C9: if the internal source has a module of the name, the external handler
\* of that name is never invoked.
C9_FirstMatchWins ==
    (Dispatched /\ lastCall.tc.args = "object" /\ lastCall.tc.avr.kind # "absent")
        => "ext" \notin lastCall.invoked

\* C10: if the resolved handler throws an exception of message M, a failure
\* result {status:'failure', message: M} is submitted for the tool call.
C10_HandlerErrorMessageSubmitted ==
    (Dispatched /\ lastCall.tc.args = "object" /\ Resolved(lastCall.tc).kind = "throws") =>
        \E k \in 1..Len(lastCall.subs) :
            /\ lastCall.subs[k].tool_call_id = lastCall.tc.id
            /\ lastCall.subs[k].output = FailureText(Resolved(lastCall.tc).msg)

\* C11: when the arguments parse and neither handler source has a module of
\* the function's name, no handler is invoked and a failure result of message
\* 'Function not found.' is submitted for the tool call.
C11_NotFoundMessageSubmitted ==
    (/\ Dispatched /\ lastCall.tc.args = "object"
     /\ lastCall.tc.avr.kind = "absent" /\ lastCall.tc.ext.kind = "absent") =>
        /\ lastCall.invoked = {}
        /\ \E j \in 1..Len(lastCall.subs) :
              /\ lastCall.subs[j].tool_call_id = lastCall.tc.id
              /\ lastCall.subs[j].output = FailureText("Function not found.")

\* The step taken is one pass of the `for await` body of request r on a chunk
\* of the given event.
ChunkStep(r, event) ==
    step'.kind = "chunk" /\ step'.by = r /\ step'.c.event = event

\* C12: a message-delta chunk whose first fragment is text of value V sends
\* exactly the frame {type:'text', content: V}, which an open channel carries
\* right after the frames written so far (a closed channel carries nothing
\* more); one whose first fragment is not text sends no frame; neither closes
\* the channel nor touches the status.
C12_TextDeltaOneFrame ==
    [][\A r \in Reqs :
          (ChunkStep(r, "thread.message.delta") /\ step'.c.kind # "malformed") =>
              /\ res'[r].ended = res[r].ended
              /\ res'[r].code = res[r].code
              /\ res'[r].frames =
                    IF step'.c.kind = "text" /\ ~res[r].ended
                    THEN Append(res[r].frames, Frame("text", step'.c.text))
                    ELSE res[r].frames]_vars

\* Two text deltas of different values and one that is not text went through
\* an open channel: the frames are in the order of the chunks.
C12_Witness ==
    /\ step.kind = "chunk" /\ step.c.event = "thread.message.delta"
    /\ step.c.kind = "image_file"
    /\ ~res[1].ended
    /\ res[1].frames = <<Frame("text", "World"), Frame("text", "Hello")>>

\* C13: a run-completed chunk sends {type:'status', content:'completed'} and a
\* run-failed chunk sends {type:'error', content:'Assistant run failed'}, the
\* last frame an open channel carries, and the channel is closed after either;
\* no step of any stream, continuation stream or timer adds a frame to a
\* channel that is closed, and a closed channel stays closed.
C13_TerminalFrameThenClosed ==
    [][\A r \in Reqs :
          /\ ChunkStep(r, "thread.run.completed") =>
                /\ res'[r].ended
                /\ res'[r].frames =
                      IF res[r].ended THEN res[r].frames
                      ELSE Append(res[r].frames, Frame("status", "completed"))
          /\ ChunkStep(r, "thread.run.failed") =>
                /\ res'[r].ended
                /\ res'[r].frames =
                      IF res[r].ended THEN res[r].frames
                      ELSE Append(res[r].frames, Frame("error", "Assistant run failed"))
          /\ res[r].ended =>
                (res'[r].ended /\ res'[r].frames = res[r].frames)]_vars

\* The run failed, the channel was closed behind its error frame, and the
\* text delta that came later left no frame.
C13_Witness ==
    /\ step.kind = "chunk" /\ step.c.event = "thread.message.delta"
    /\ step.c.kind = "text"
    /\ res[1].ended
    /\ res[1].frames = <<Frame("text", "Hello"), Frame("error", "Assistant run failed")>>

\* C14: when iterating the stream of an invocation throws, the error frame
\* 'Stream connection error' is sent (the last frame an open channel
\* carries), the channel is closed, the flag of the session's thread is false,
\* the invocation is over with no new one started, and the request is
\* otherwise untouched; an invocation that is over never runs again.
C14_StreamErrorEndsTurn ==
    [][\A r \in Reqs :
          /\ (step'.kind = "throw" /\ step'.by = r) =>
                /\ res'[r].ended
                /\ res'[r].code = res[r].code
                /\ res'[r].frames =
                      IF res[r].ended THEN res[r].frames
                      ELSE Append(res[r].frames, Frame("error", "Stream connection error"))
                /\ ~activeRuns'[threadIds[req[r].uuid]]
                /\ inv'[r][step'.i].st = "done"
                /\ Len(inv'[r]) = Len(inv[r])
                /\ req'[r] = req[r]
          /\ \A i \in 1..Len(inv[r]) :
                inv[r][i].st = "done" => inv'[r][i].st = "done"]_vars

\* A stream failed after one text frame: error frame, closed channel, flag
\* cleared.
C14_Witness ==
    /\ step.kind = "throw" /\ step.by = 1
    /\ res[1].ended
    /\ res[1].frames = <<Frame("text", "Hello"), Frame("error", "Stream connection error")>>
    /\ ~activeRuns[threadIds[req[1].uuid]]
    /\ inv[1][step.i].st = "done"

\* C15: the results of all k tool calls of one requires_action chunk go to the
\* remote run in one submission: every submitToolOutputs call made for the
\* chunk carries k tool outputs.
C15_OneBatchPerEvent ==
    Dispatched =>
        \A j \in 1..Len(lastCall.subs) : lastCall.subs[j].n = lastCall.k

\* Request r is admitted by the step taken: waitForActiveRun returned true and
\* handlePromptStream went on to issue messages.create.
AdmissionStep(r) == req[r].pc # "append" /\ req'[r].pc = "append"

RemoteRunActive(t) ==
    \E r \in Reqs :
        /\ req[r].run /\ req[r].runOn = t
        /\ \E i \in 1..Len(inv[r]) : inv[r][i].st # "done"

\* C17: a request that finds the flag of its thread true while the remote
\* service has no run of that thread that is not terminal is admitted at
\* once: it starts a delay wait only if such a run exists.
C17_ReconciledWithRemote ==
    [][\A r \in Reqs :
          (req[r].pc \in {"idle", "create"} /\ req'[r].pc = "sleep")
              => RemoteRunActive(req'[r].tid)]_vars

\* C18: an error raised while one chunk is processed is caught: the error
\* frame 'Error processing response' is sent (the last frame an open channel
\* carries), and the step neither closes the channel, nor ends the
\* invocation, which goes on with the next chunk, nor clears the flag.
C18_EventErrorDoesNotAbort ==
    [][\A r \in Reqs :
          (ChunkStep(r, "thread.message.delta") /\ step'.c.kind = "malformed") =>
              /\ res'[r].ended = res[r].ended
              /\ res'[r].code = res[r].code
              /\ res'[r].frames =
                    IF res[r].ended THEN res[r].frames
                    ELSE Append(res[r].frames, Frame("error", "Error processing response"))
              /\ inv'[r][step'.i].st = "loop"
              /\ Len(inv'[r]) = Len(inv[r])
              /\ activeRuns' = activeRuns
              /\ req'[r].pc = "streaming"]_vars

\* After the error frame the same stream delivered a text delta and then the
\* terminal chunk that closed the channel.
C18_Witness ==
    /\ step.kind = "chunk" /\ step.by = 1 /\ step.i = 1
    /\ step.c.event = "thread.run.completed"
    /\ Len(inv[1]) = 1
    /\ res[1].ended
    /\ res[1].frames = <<Frame("error", "Error processing response"),
                         Frame("text", "Hello"), Frame("status", "completed")>>

\* The step taken wrote the waiting frame to the channel of request r.
WaitingEmitted(r) == res'[r].frames = Append(res[r].frames, WaitingFrame)

\* C19: the waiting frame is written only if a waiting message is configured,
\* at most once per turn, by the expiry of a timer that a run-created chunk
\* armed and that nothing has cancelled, and with no message delta seen yet.
C19_WaitingFrameOnceUnlessCancelled ==
    [][\A r \in Reqs :
          WaitingEmitted(r) =>
              /\ env
              /\ \A j \in 1..Len(res[r].frames) : res[r].frames[j] # WaitingFrame
              /\ step'.kind \in {"timer", "orphan"} /\ step'.by = r
              /\ inv[r][step'.i].timer = "armed"
              /\ ~inv[r][step'.i].isWriting]_vars

\* waitForActiveRun returned false for request r in the step taken.
RejectionStep(r) == req[r].failedAt # "admission" /\ req'[r].failedAt = "admission"

\* C20: waitForActiveRun makes at most MAX_RETRIES checks and MAX_RETRIES
\* waits; it returns true only in a step whose check saw the flag false, with
\* no wait at all when the flag is false on entry; and it returns false only
\* while the flag is true: a flag cleared during the last wait is seen.
C20_NoClearMissed ==
    [][\A r \in Reqs :
          /\ req'[r].retries <= MAX_RETRIES /\ req'[r].sleeps <= MAX_RETRIES
          /\ AdmissionStep(r) => ~activeRuns[req'[r].tid]
          /\ (req[r].pc \in {"idle", "create"} /\ req'[r].pc = "sleep")
                => activeRuns[req'[r].tid]
          /\ RejectionStep(r) => activeRuns[req'[r].tid]]_vars

====
